---- MODULE Spec2Model ----
(***************************************************************************)
(* A model of tamatui (src/src/main.rs): the App state, the match arms of  *)
(* the key handler, on_tick, the loop of App::run and main.                *)
(*                                                                         *)
(* pet_position is a pair of f64.  Every value the program can produce is  *)
(* a multiple of 0.5 (the start is 100.0, 50.0; keys add 1.0; on_tick adds *)
(* 1.0 and -0.5; the clamp bounds are whole numbers), so the model keeps   *)
(* positions as integers counted in halves: F(n) is `n as f64`.            *)
(* Time is counted in milliseconds.                                        *)
(***************************************************************************)
EXTENDS Integers, Sequences, FiniteSets, TLC

VARIABLES
    \* struct App (main.rs:39-46)
    pet_position, playground, hunger, happiness, tick_count, marker,
    \* main (main.rs:31-37)
    mpc, term_init, restored, app_result, main_result,
    \* App::run (main.rs:59-96); frame is what the last terminal.draw has put
    \* on the screen
    pc, now, last_tick, timeout, poll_start, frame,
    \* history of the loop: when it started, what the current iteration has
    \* done so far and what the last complete one did, how many events were
    \* read, the last thing dispatched, the call that failed, and when on_tick
    \* was last called (the start of the loop before the first call)
    loop_start, iter, prev_iter, events_read, last_event, failed, last_on_tick,
    \* history of the handlers applied on their own: the key events so far, and
    \* the current run of presses of one direction
    keys_used, run_dir, run_len, run_start, runs

app_vars  == <<pet_position, playground, hunger, happiness, tick_count, marker>>
main_vars == <<mpc, term_init, restored, app_result, main_result>>
run_vars  == <<pc, now, last_tick, timeout, poll_start, frame>>
loop_hist == <<loop_start, iter, prev_iter, events_read, last_event, failed,
               last_on_tick>>
key_hist  == <<keys_used, run_dir, run_len, run_start, runs>>
vars      == <<app_vars, main_vars, run_vars, loop_hist, key_hist>>

----------------------------------------------------------------------------
\* Bounds of the model.

\* Spec: the clock stops at MaxTime ms, and at most MaxEvents events arrive.
MaxTime == 34
MaxEvents == 2
\* SpecTicks: at most MaxTicks calls of on_tick and MaxKeys key events.
MaxTicks == 12130
MaxKeys == 2
\* SpecKeys: runs of at most MaxPresses presses of one direction (more than
\* the way to any boundary from the start), at most MaxRuns runs and
\* MaxKeyTicks calls of on_tick; the run that starts in the state of
\* App::new() may go on to MaxFirstRun presses.
MaxPresses == 120
MaxFirstRun == 1000
MaxRuns == 1
MaxKeyTicks == 1
\* SpecLive: at most MaxLiveTicks calls of on_tick (the 12000th brings
\* happiness to 0), and the clock is read every LiveStep ms.
MaxLiveTicks == 12000
LiveStep == 8

----------------------------------------------------------------------------
\* Arithmetic of the program.

Min(a, b) == IF a <= b THEN a ELSE b
Max(a, b) == IF a >= b THEN a ELSE b

\* u32::saturating_sub, Duration::saturating_sub
SaturatingSub(a, b) == IF a >= b THEN a - b ELSE 0

\* `n as f64`, `n.0` literals: a whole number, counted in halves
F(n) == 2 * n

\* Rect::new(x, y, width, height) and its edges
Rect(x, y, w, h) == [x |-> x, y |-> y, width |-> w, height |-> h]
Left(r)   == r.x
Right(r)  == r.x + r.width
Top(r)    == r.y
Bottom(r) == r.y + r.height

\* Duration::from_millis(16)
tick_rate == 16

----------------------------------------------------------------------------
\* App::new

NewPosition   == <<F(100), F(50)>>
NewPlayground == Rect(10, 10, 200, 100)
NewHunger     == 0
NewHappiness  == 100
NewTickCount  == 0
NewMarker     == "Braille"

Markers == {"Dot", "Braille", "Block", "HalfBlock", "Bar"}

----------------------------------------------------------------------------
\* The key handler: the match on key.code in App::run.

KeyCodes == {"q", "Down", "j", "Up", "k", "Right", "l", "Left", "h", "x"}
\* what event::read can return: a key event with one of the codes, or an
\* event that is no key event
Events == KeyCodes \cup {"Resize"}

\* the arm of the match a key code selects
Arm(code) ==
    CASE code = "q" -> "quit"
      [] code \in {"Down", "j"} -> "down"
      [] code \in {"Up", "k"} -> "up"
      [] code \in {"Right", "l"} -> "right"
      [] code \in {"Left", "h"} -> "left"
      [] OTHER -> "none"

\* mutants of the arms: a clamp is missing, or is at the edge itself
MoveDownToBottom(pos, pg) == <<pos[1], Min(pos[2] + F(1), F(Bottom(pg)))>>
MoveRightToEdge(pos, pg)  == <<Min(pos[1] + F(1), F(Right(pg))), pos[2]>>
MoveLeftUnclamped(pos, pg) == <<pos[1] - F(1), pos[2]>>

MoveDown(pos, pg)  == <<pos[1], Min(pos[2] + F(1), F(Bottom(pg)) - F(5))>>
MoveUp(pos, pg)    == <<pos[1], Max(pos[2] - F(1), F(Top(pg)))>>
MoveRight(pos, pg) == <<Min(pos[1] + F(1), F(Right(pg)) - F(5)), pos[2]>>
MoveLeft(pos, pg)  == <<Max(pos[1] - F(1), F(Left(pg))), pos[2]>>

\* mutant: a key without an arm falls into the arm of down
MatchArmDefaultsDown(arm, pos, pg) ==
    CASE arm = "up" -> MoveUp(pos, pg)
      [] arm = "right" -> MoveRight(pos, pg)
      [] arm = "left" -> MoveLeft(pos, pg)
      [] OTHER -> MoveDown(pos, pg)

\* pet_position after the arm has run
MatchArm(arm, pos, pg) ==
    CASE arm = "down" -> MoveDown(pos, pg)
      [] arm = "up" -> MoveUp(pos, pg)
      [] arm = "right" -> MoveRight(pos, pg)
      [] arm = "left" -> MoveLeft(pos, pg)
      [] OTHER -> pos

\* `if let Event::Key(key) = ...  match key.code`: the effect on the App
HandleEvent(e) ==
    /\ pet_position' = IF e \in KeyCodes
                         THEN MatchArm(Arm(e), pet_position, playground)
                         ELSE pet_position
    /\ UNCHANGED <<playground, hunger, happiness, tick_count, marker>>

----------------------------------------------------------------------------
\* App::on_tick

\* mutant: hunger is not capped
TickHungerUncapped(tc, h) == IF tc % 60 = 0 THEN h + 1 ELSE h

TickHunger(tc, h) == IF tc % 60 = 0 THEN Min(h + 1, 100) ELSE h

\* mutant: the subtraction does not stop at zero
TickHappinessUnsaturated(tc, hp) == IF tc % 120 = 0 THEN hp - 1 ELSE hp

\* mutant: at zero the subtraction starts again from the top
TickHappinessWraps(tc, hp) ==
    IF tc % 120 = 0 THEN (IF hp = 0 THEN 100 ELSE hp - 1) ELSE hp

TickHappiness(tc, hp) == IF tc % 120 = 0 THEN SaturatingSub(hp, 1) ELSE hp

\* mutant: the cycle leaves Bar out
NextMarkerSkipsBar(m) ==
    CASE m = "Dot" -> "Braille"
      [] m = "Braille" -> "Block"
      [] m = "Block" -> "HalfBlock"
      [] m = "HalfBlock" -> "Dot"
      [] m = "Bar" -> "Dot"

NextMarker(m) ==
    CASE m = "Dot" -> "Braille"
      [] m = "Braille" -> "Block"
      [] m = "Block" -> "HalfBlock"
      [] m = "HalfBlock" -> "Bar"
      [] m = "Bar" -> "Dot"

\* mutant: the marker moves on every 90 calls
TickMarkerEvery90(tc, m) == IF tc % 90 = 0 THEN NextMarker(m) ELSE m

TickMarker(tc, m) == IF tc % 180 = 0 THEN NextMarker(m) ELSE m

\* (dx, dy) = (1.0, -0.5), in halves
dx == 2
dy == -1

\* mutant: the drift is clamped at the far edges themselves
TickPositionToEdge(pos, pg) ==
    <<Min(Max(pos[1] + dx, F(Left(pg))), F(Right(pg))),
      Min(Max(pos[2] + dy, F(Top(pg))), F(Bottom(pg)))>>

\* mutant: the drift is not clamped
TickPositionUnclamped(pos, pg) == <<pos[1] + dx, pos[2] + dy>>

TickPosition(pos, pg) ==
    LET new_x == pos[1] + dx
        new_y == pos[2] + dy
    IN  <<Min(Max(new_x, F(Left(pg))), F(Right(pg)) - F(5)),
          Min(Max(new_y, F(Top(pg))), F(Bottom(pg)) - F(5))>>

\* mutant: the counter is not incremented
on_tick_uncounted ==
    /\ tick_count' = tick_count
    /\ hunger' = TickHunger(tick_count + 1, hunger)
    /\ happiness' = TickHappiness(tick_count + 1, happiness)
    /\ marker' = TickMarker(tick_count + 1, marker)
    /\ pet_position' = TickPosition(pet_position, playground)
    /\ UNCHANGED playground

on_tick ==
    /\ tick_count' = tick_count + 1
    /\ hunger' = TickHunger(tick_count + 1, hunger)
    /\ happiness' = TickHappiness(tick_count + 1, happiness)
    /\ marker' = TickMarker(tick_count + 1, marker)
    /\ pet_position' = TickPosition(pet_position, playground)
    /\ UNCHANGED playground

----------------------------------------------------------------------------
\* What App::draw puts on the screen

\* the two lines of the status paragraph; format!("Hunger: {}", n) is the
\* label followed by the decimal digits of n
Decimal(n) ==
    IF n < 10 THEN <<n>>
    ELSE IF n < 100 THEN <<n \div 10, n % 10>>
    ELSE <<n \div 100, (n \div 10) % 10, n % 10>>
status_canvas ==
    <<<<"Hunger: ", Decimal(hunger)>>, <<"Happiness: ", Decimal(happiness)>>>>

\* the canvas of the pet: its marker, the circle it paints and its bounds
pet_canvas ==
    [marker |-> marker,
     circle |-> [x |-> pet_position[1], y |-> pet_position[2], radius |-> F(5)],
     x_bounds |-> <<F(10), F(210)>>,
     y_bounds |-> <<F(10), F(110)>>]

\* the widgets draw renders, left to right
draw == <<status_canvas, pet_canvas>>

----------------------------------------------------------------------------
\* The initial state: main has not started; the App is as App::new makes it.

\* what an iteration of the loop has done: draws, polls, how the poll ended
\* ("none", "event", "timeout"), events dispatched, on_tick calls, and whether
\* it has run to its end
NewIter ==
    [renders |-> 0, polls |-> 0, polled |-> "none", events |-> 0, ticks |-> 0,
     done |-> FALSE]

Init ==
    /\ pet_position = NewPosition
    /\ playground = NewPlayground
    /\ hunger = NewHunger
    /\ happiness = NewHappiness
    /\ tick_count = NewTickCount
    /\ marker = NewMarker
    /\ mpc = "install"
    /\ term_init = FALSE
    /\ restored = 0
    /\ app_result = "none"
    /\ main_result = "none"
    /\ pc = "idle"
    /\ now = 0
    /\ last_tick = 0
    /\ timeout = 0
    /\ poll_start = 0
    /\ frame = <<>>
    /\ loop_start = 0
    /\ iter = NewIter
    /\ prev_iter = NewIter
    /\ events_read = 0
    /\ last_event = "none"
    /\ failed = "none"
    /\ last_on_tick = 0
    /\ keys_used = 0
    /\ run_dir = "none"
    /\ run_len = 0
    /\ run_start = NewPosition
    /\ runs = 0

----------------------------------------------------------------------------
\* main (main.rs:31-37) and App::run (main.rs:59-96), one action per step.
\* Results are "Ok" and "Err"; "none" is no result yet.

\* color_eyre::install()? succeeds
Install ==
    /\ mpc = "install"
    /\ mpc' = "init"
    /\ UNCHANGED <<app_vars, term_init, restored, app_result, main_result,
                   run_vars, loop_hist, key_hist>>

\* color_eyre::install()? fails: main returns before the terminal is touched
InstallFail ==
    /\ mpc = "install"
    /\ mpc' = "done"
    /\ main_result' = "Err"
    /\ UNCHANGED <<app_vars, term_init, restored, app_result, run_vars,
                   loop_hist, key_hist>>

\* ratatui::init(), then App::new().run(terminal) up to the head of the loop:
\* last_tick = Instant::now()
InitTerminal ==
    /\ mpc = "init"
    /\ term_init' = TRUE
    /\ mpc' = "run"
    /\ pc' = "draw"
    /\ last_tick' = now
    /\ loop_start' = now
    /\ last_on_tick' = now
    /\ UNCHANGED <<app_vars, restored, app_result, main_result, now, timeout,
                   poll_start, frame, iter, prev_iter, events_read,
                   last_event, failed, key_hist>>

\* mutant: main returns an Err of run at once, as `run(terminal)?` would
RunReturnsSkipsRestore(r) ==
    /\ pc' = "returned"
    /\ app_result' = r
    /\ mpc' = IF r = "Err" THEN "return" ELSE "restore"

\* `?` on an Err, or `break Ok(())`: run returns r to main, which goes on to
\* ratatui::restore()
RunReturns(r) ==
    /\ pc' = "returned"
    /\ app_result' = r
    /\ mpc' = "restore"

\* terminal.draw(..)? succeeds; draw takes &self and changes nothing
\* mutant: drawing moves the pet on
DrawAnimates ==
    /\ pc = "draw"
    /\ pc' = "poll_call"
    /\ frame' = draw
    /\ pet_position' = TickPosition(pet_position, playground)
    /\ iter' = [iter EXCEPT !.renders = @ + 1]
    /\ UNCHANGED <<playground, hunger, happiness, tick_count, marker,
                   main_vars, now, last_tick, timeout, poll_start,
                   loop_start, prev_iter, events_read, last_event, failed,
                   last_on_tick, key_hist>>

Draw ==
    /\ pc = "draw"
    /\ pc' = "poll_call"
    /\ frame' = draw
    /\ iter' = [iter EXCEPT !.renders = @ + 1]
    /\ UNCHANGED <<app_vars, main_vars, now, last_tick, timeout, poll_start,
                   loop_start, prev_iter, events_read, last_event, failed,
                   last_on_tick, key_hist>>

DrawFail ==
    /\ pc = "draw"
    /\ RunReturns("Err")
    /\ failed' = "draw"
    /\ UNCHANGED <<app_vars, term_init, restored, main_result, now,
                   last_tick, timeout, poll_start, frame, loop_start, iter,
                   prev_iter, events_read, last_event, last_on_tick,
                   key_hist>>

\* mutant: the poll always waits a whole tick interval
PollCallWholeInterval ==
    /\ pc = "poll_call"
    /\ timeout' = tick_rate
    /\ poll_start' = now
    /\ pc' = "poll"
    /\ iter' = [iter EXCEPT !.polls = @ + 1]
    /\ UNCHANGED <<app_vars, main_vars, now, last_tick, frame, loop_start,
                   prev_iter, events_read, last_event, failed, last_on_tick,
                   key_hist>>

\* timeout = tick_rate.saturating_sub(last_tick.elapsed()); event::poll(timeout)
\* is entered
PollCall ==
    /\ pc = "poll_call"
    /\ timeout' = SaturatingSub(tick_rate, now - last_tick)
    /\ poll_start' = now
    /\ pc' = "poll"
    /\ iter' = [iter EXCEPT !.polls = @ + 1]
    /\ UNCHANGED <<app_vars, main_vars, now, last_tick, frame, loop_start,
                   prev_iter, events_read, last_event, failed, last_on_tick,
                   key_hist>>

\* event::poll has returned: its timeout is not used again, and the model
\* forgets it
PollReturns ==
    /\ timeout' = 0
    /\ poll_start' = 0

\* event::poll returns Ok(true): an event is available
PollEvent ==
    /\ pc = "poll"
    /\ events_read < MaxEvents
    /\ pc' = "read"
    /\ iter' = [iter EXCEPT !.polled = "event"]
    /\ PollReturns
    /\ UNCHANGED <<app_vars, main_vars, now, last_tick, frame, loop_start,
                   prev_iter, events_read, last_event, failed, last_on_tick,
                   key_hist>>

\* event::poll returns Ok(false): the timeout has passed with no event
PollTimeout ==
    /\ pc = "poll"
    /\ now - poll_start >= timeout
    /\ pc' = "tick_check"
    /\ iter' = [iter EXCEPT !.polled = "timeout"]
    /\ PollReturns
    /\ UNCHANGED <<app_vars, main_vars, now, last_tick, frame, loop_start,
                   prev_iter, events_read, last_event, failed, last_on_tick,
                   key_hist>>

PollFail ==
    /\ pc = "poll"
    /\ RunReturns("Err")
    /\ failed' = "poll"
    /\ PollReturns
    /\ UNCHANGED <<app_vars, term_init, restored, main_result, now,
                   last_tick, frame, loop_start, iter, prev_iter,
                   events_read, last_event, last_on_tick, key_hist>>

\* event::read()? returns e, which is not the key q: the match runs
ReadEvent(e) ==
    /\ pc = "read"
    /\ ~(e \in KeyCodes /\ Arm(e) = "quit")
    /\ HandleEvent(e)
    /\ pc' = "tick_check"
    /\ events_read' = events_read + 1
    /\ last_event' = e
    /\ iter' = [iter EXCEPT !.events = @ + 1]
    /\ UNCHANGED <<main_vars, now, last_tick, timeout, poll_start, frame,
                   loop_start, prev_iter, failed, last_on_tick, key_hist>>

\* mutant: the arm of q does not break
ReadQuitContinues ==
    /\ pc = "read"
    /\ pc' = "tick_check"
    /\ events_read' = events_read + 1
    /\ last_event' = "q"
    /\ iter' = [iter EXCEPT !.events = @ + 1]
    /\ UNCHANGED <<app_vars, main_vars, now, last_tick, timeout, poll_start,
                   frame, loop_start, prev_iter, failed, last_on_tick,
                   key_hist>>

\* mutant: a tick that is due is run before the loop is left
ReadQuitTicksFirst ==
    /\ pc = "read"
    /\ RunReturns("Ok")
    /\ events_read' = events_read + 1
    /\ last_event' = "q"
    /\ iter' = [iter EXCEPT !.events = @ + 1]
    /\ IF now - last_tick >= tick_rate THEN on_tick ELSE UNCHANGED app_vars
    /\ UNCHANGED <<term_init, restored, main_result, now, last_tick, timeout,
                   poll_start, frame, loop_start, prev_iter, failed,
                   last_on_tick, key_hist>>

\* event::read()? returns the key q: break Ok(())
ReadQuit ==
    /\ pc = "read"
    /\ RunReturns("Ok")
    /\ events_read' = events_read + 1
    /\ last_event' = "q"
    /\ iter' = [iter EXCEPT !.events = @ + 1]
    /\ UNCHANGED <<app_vars, term_init, restored, main_result, now,
                   last_tick, timeout, poll_start, frame, loop_start,
                   prev_iter, failed, last_on_tick, key_hist>>

ReadFail ==
    /\ pc = "read"
    /\ RunReturns("Err")
    /\ failed' = "read"
    /\ UNCHANGED <<app_vars, term_init, restored, main_result, now,
                   last_tick, timeout, poll_start, frame, loop_start, iter,
                   prev_iter, events_read, last_event, last_on_tick,
                   key_hist>>

\* mutant: on_tick runs in every iteration
TickDueUnchecked ==
    /\ pc = "tick_check"
    /\ pc' = "on_tick"
    /\ UNCHANGED <<app_vars, main_vars, now, last_tick, timeout, poll_start,
                   frame, loop_hist, key_hist>>

\* if last_tick.elapsed() >= tick_rate: taken
TickDue ==
    /\ pc = "tick_check"
    /\ now - last_tick >= tick_rate
    /\ pc' = "on_tick"
    /\ UNCHANGED <<app_vars, main_vars, now, last_tick, timeout, poll_start,
                   frame, loop_hist, key_hist>>

\* if last_tick.elapsed() >= tick_rate: not taken; the iteration ends and the
\* loop goes back to draw
TickNotDue ==
    /\ pc = "tick_check"
    /\ now - last_tick < tick_rate
    /\ pc' = "draw"
    /\ prev_iter' = [iter EXCEPT !.done = TRUE]
    /\ iter' = NewIter
    /\ UNCHANGED <<app_vars, main_vars, now, last_tick, timeout, poll_start,
                   frame, loop_start, events_read, last_event, failed,
                   last_on_tick, key_hist>>

\* mutant: the tick clock is not reset
OnTickNoReset ==
    /\ pc = "on_tick"
    /\ on_tick
    /\ pc' = "draw"
    /\ last_event' = "tick"
    /\ last_on_tick' = now
    /\ prev_iter' = [iter EXCEPT !.ticks = @ + 1, !.done = TRUE]
    /\ iter' = NewIter
    /\ UNCHANGED <<main_vars, now, last_tick, timeout, poll_start, frame,
                   loop_start, events_read, failed, key_hist>>

\* self.on_tick(); last_tick = Instant::now(); the iteration ends and the
\* loop goes back to draw
OnTick ==
    /\ pc = "on_tick"
    /\ on_tick
    /\ last_tick' = now
    /\ last_on_tick' = now
    /\ pc' = "draw"
    /\ last_event' = "tick"
    /\ prev_iter' = [iter EXCEPT !.ticks = @ + 1, !.done = TRUE]
    /\ iter' = NewIter
    /\ UNCHANGED <<main_vars, now, timeout, poll_start, frame, loop_start,
                   events_read, failed, key_hist>>

\* ratatui::restore()
Restore ==
    /\ mpc = "restore"
    /\ restored' = restored + 1
    /\ mpc' = "return"
    /\ UNCHANGED <<app_vars, term_init, app_result, main_result, run_vars,
                   loop_hist, key_hist>>

\* main returns app_result
Return ==
    /\ mpc = "return"
    /\ main_result' = app_result
    /\ mpc' = "done"
    /\ UNCHANGED <<app_vars, term_init, restored, app_result, run_vars,
                   loop_hist, key_hist>>

\* a millisecond passes while run is executing, wherever it is
Advance ==
    /\ mpc = "run"
    /\ now < MaxTime
    /\ now' = now + 1
    /\ UNCHANGED <<app_vars, main_vars, pc, last_tick, timeout, poll_start,
                   frame, loop_hist, key_hist>>

Next ==
    \/ Install
    \/ InstallFail
    \/ InitTerminal
    \/ Draw
    \/ DrawFail
    \/ PollCall
    \/ PollEvent
    \/ PollTimeout
    \/ PollFail
    \/ \E e \in Events : ReadEvent(e)
    \/ ReadQuit
    \/ ReadFail
    \/ TickDue
    \/ TickNotDue
    \/ OnTick
    \/ Restore
    \/ Return
    \/ Advance

Spec == Init /\ [][Next]_vars

----------------------------------------------------------------------------
\* The handlers on their own.  The loop runs the match arm of an event it
\* has read and on_tick in any order (an iteration may do either, both or
\* neither), so the App states of the loop are the states the two handlers
\* reach from App::new() in any interleaving.  The two specifications below
\* apply them directly, which lets the counters run far: SpecTicks follows
\* many ticks with few events, SpecKeys long runs of one arrow key with few
\* ticks.

\* events the match handles without leaving the loop
Handled == Events \ {"q"}
MoveKeys == {c \in KeyCodes : Arm(c) \in {"down", "up", "right", "left"}}
ArrowKeys == {"Down", "Up", "Right", "Left"}

\* on_tick, in SpecTicks
TickStep ==
    /\ tick_count < MaxTicks
    /\ on_tick
    /\ UNCHANGED <<main_vars, run_vars, loop_hist, key_hist>>

\* an event is dispatched, in SpecTicks
KeyStep(e) ==
    /\ keys_used < MaxKeys
    /\ HandleEvent(e)
    /\ keys_used' = keys_used + 1
    /\ UNCHANGED <<main_vars, run_vars, loop_hist, run_dir, run_len,
                   run_start, runs>>

NextTicks ==
    \/ TickStep
    \/ \E e \in Handled : KeyStep(e)

SpecTicks == Init /\ [][NextTicks]_vars

\* an arrow key is dispatched, in SpecKeys: it continues the run of its
\* direction
PressAgain(e) ==
    /\ Arm(e) = run_dir
    /\ \/ run_len < MaxPresses
       \/ run_start = NewPosition /\ tick_count = 0 /\ runs = 1
            /\ run_len < MaxFirstRun
    /\ HandleEvent(e)
    /\ run_len' = run_len + 1
    /\ last_event' = e
    /\ UNCHANGED <<main_vars, run_vars, loop_start, iter, prev_iter,
                   events_read, failed, last_on_tick, keys_used, run_dir,
                   run_start, runs>>

\* an arrow key is dispatched, in SpecKeys: it starts a run
PressFirst(e) ==
    /\ Arm(e) # run_dir
    /\ runs < MaxRuns
    /\ HandleEvent(e)
    /\ run_dir' = Arm(e)
    /\ run_len' = 1
    /\ run_start' = pet_position
    /\ runs' = runs + 1
    /\ last_event' = e
    /\ UNCHANGED <<main_vars, run_vars, loop_start, iter, prev_iter,
                   events_read, failed, last_on_tick, keys_used>>

\* an event the match has no arm for is dispatched, in SpecKeys: it ends
\* the run
Ignored(e) ==
    /\ HandleEvent(e)
    /\ run_dir' = "none"
    /\ run_len' = 0
    /\ run_start' = pet_position'
    /\ last_event' = e
    /\ UNCHANGED <<main_vars, run_vars, loop_start, iter, prev_iter,
                   events_read, failed, last_on_tick, keys_used, runs>>

\* on_tick, in SpecKeys: it ends the run
KeyTick ==
    /\ tick_count < MaxKeyTicks
    /\ on_tick
    /\ run_dir' = "none"
    /\ run_len' = 0
    /\ run_start' = pet_position'
    /\ last_event' = "tick"
    /\ UNCHANGED <<main_vars, run_vars, loop_start, iter, prev_iter,
                   events_read, failed, last_on_tick, keys_used, runs>>

NextKeys ==
    \/ \E e \in ArrowKeys : PressAgain(e)
    \/ \E e \in ArrowKeys : PressFirst(e)
    \/ \E e \in Handled \ MoveKeys : Ignored(e)
    \/ KeyTick

SpecKeys == Init /\ [][NextKeys]_vars

----------------------------------------------------------------------------
\* A fourth specification, of the loop running for ever: no q, no error,
\* events without limit.  The loop sees the clock only as the time since
\* last_tick, and only up to tick_rate (the timeout is 0 and the tick is due
\* from there on), so the clock of SpecLive stands still once the tick is
\* due and goes on when on_tick has run.

\* the events that may arrive at any poll: resizes of the terminal, which
\* the loop reads and drops (what the key arms do is left to Spec and
\* SpecKeys)
LiveEvents == {"Resize"}

\* event::poll returns Ok(true), in SpecLive
LivePollEvent ==
    /\ pc = "poll"
    /\ pc' = "read"
    /\ iter' = [iter EXCEPT !.polled = "event"]
    /\ PollReturns
    /\ UNCHANGED <<app_vars, main_vars, now, last_tick, frame, loop_start,
                   prev_iter, events_read, last_event, failed, last_on_tick,
                   key_hist>>

\* mutant: after an event the loop goes on to the next iteration at once
LiveReadContinues(e) ==
    /\ pc = "read"
    /\ HandleEvent(e)
    /\ pc' = "draw"
    /\ last_event' = e
    /\ prev_iter' = [iter EXCEPT !.events = @ + 1, !.done = TRUE]
    /\ iter' = NewIter
    /\ UNCHANGED <<main_vars, now, last_tick, timeout, poll_start, frame,
                   loop_start, events_read, failed, last_on_tick, key_hist>>

\* event::read()? returns e, in SpecLive: the match runs
LiveRead(e) ==
    /\ pc = "read"
    /\ HandleEvent(e)
    /\ pc' = "tick_check"
    /\ last_event' = e
    /\ iter' = [iter EXCEPT !.events = @ + 1]
    /\ UNCHANGED <<main_vars, now, last_tick, timeout, poll_start, frame,
                   loop_start, prev_iter, events_read, failed, last_on_tick,
                   key_hist>>

\* self.on_tick(); last_tick = Instant::now(), in SpecLive
LiveOnTick ==
    /\ tick_count < MaxLiveTicks
    /\ OnTick

\* time passes while the tick is not due, in SpecLive
LiveAdvance ==
    /\ mpc = "run"
    /\ now - last_tick < tick_rate
    /\ now' = Min(now + LiveStep, last_tick + tick_rate)
    /\ UNCHANGED <<app_vars, main_vars, pc, last_tick, timeout, poll_start,
                   frame, loop_hist, key_hist>>

\* the steps of the program itself
LiveProgram ==
    \/ Install
    \/ InitTerminal
    \/ Draw
    \/ PollCall
    \/ PollTimeout
    \/ \E e \in LiveEvents : LiveRead(e)
    \/ TickDue
    \/ TickNotDue
    \/ LiveOnTick

NextLive ==
    \/ LiveProgram
    \/ LivePollEvent
    \/ LiveAdvance

\* the program goes on whenever it can, and time goes on; whether an event
\* arrives is left open
SpecLive ==
    /\ Init
    /\ [][NextLive]_vars
    /\ WF_vars(LiveProgram)
    /\ WF_vars(LiveAdvance)

----------------------------------------------------------------------------
\* The claims.

\* C1 (SpecKeys): in every reachable state pet_position.x lies in
\* [playground.left, playground.right - 5] = [10, 205] and pet_position.y in
\* [playground.top, playground.bottom - 5] = [10, 105]; every state is the
\* state before and after an input or a tick.
ClampInvariant ==
    /\ F(Left(playground)) <= pet_position[1]
    /\ pet_position[1] <= F(Right(playground)) - F(5)
    /\ F(Top(playground)) <= pet_position[2]
    /\ pet_position[2] <= F(Bottom(playground)) - F(5)
    /\ pet_position[1] \in F(10)..F(205)
    /\ pet_position[2] \in F(10)..F(105)

\* the 91st press of left from x = 100 has been clamped at x = 10
ClampedAtLeft ==
    /\ run_dir = "left"
    /\ run_len = 91
    /\ run_start = NewPosition
    /\ pet_position = <<F(10), F(50)>>

Cycle == <<"Dot", "Braille", "Block", "HalfBlock", "Bar">>
CycleAt(i) == Cycle[i + 1]

\* C2 as stated (SpecTicks): after n ticks the marker is element
\* floor(n/180) mod 5 of [Dot, Braille, Block, HalfBlock, Bar], so Dot after 0
\* and after 60 ticks.
MarkerCycleFromDot == marker = CycleAt((tick_count \div 180) % 5)

\* C2 as amended (SpecTicks): after n ticks the marker is element
\* (floor(n/180) + 1) mod 5 of the cycle, which App::new enters at Braille.
MarkerCycleFromBraille == marker = CycleAt(((tick_count \div 180) + 1) % 5)

\* the cycle has gone round once and is back at Braille, with events between
MarkerWentRound ==
    /\ tick_count = 1000
    /\ marker = "Braille"
    /\ keys_used > 0

\* C3 (SpecTicks): after n ticks hunger is min(floor(n/60), 100), whatever
\* events were dispatched between the ticks.
HungerClosedForm == hunger = Min(tick_count \div 60, 100)

\* hunger has stayed at 100 through the tick that would make it 101
HungerSaturated ==
    /\ tick_count = 6060
    /\ hunger = 100
    /\ keys_used > 0

\* C4 (SpecTicks): after n ticks happiness is max(100 - floor(n/120), 0),
\* whatever events were dispatched between the ticks.
HappinessClosedForm == happiness = Max(100 - (tick_count \div 120), 0)

\* happiness has stayed at 0 through the tick that would make it -1
HappinessSaturated ==
    /\ tick_count = 12120
    /\ happiness = 0
    /\ keys_used > 0

\* the tick check of an iteration decides whether on_tick is called
TickDecided == pc = "tick_check" /\ pc' # "tick_check"

\* C5 as stated (Spec): whenever the tick check has decided, the number of
\* on_tick calls, the one it has decided on included, is the number of whole
\* tick intervals elapsed since the loop started.
OneTickPerInterval ==
    [][TickDecided =>
         (IF pc' = "on_tick" THEN tick_count + 1 ELSE tick_count)
             = (now - loop_start) \div tick_rate]_vars

\* C5 as amended (Spec): the number of on_tick calls never exceeds the number
\* of whole tick intervals elapsed since the loop started.
TicksAtMostIntervals == tick_count <= (now - loop_start) \div tick_rate

\* the first on_tick came two intervals or more after the start of the loop,
\* and it stands for both
LateIterationOneTick ==
    /\ pc = "draw"
    /\ tick_count = 1
    /\ last_tick - loop_start >= 2 * tick_rate

\* C6 as stated (Spec): run returns only after a q key event, and with Ok.
OnlyQuitEndsLoop == pc = "returned" => (last_event = "q" /\ app_result = "Ok")

\* C6 as amended (Spec): run returns Ok exactly when a q key event was
\* dispatched, which ends the loop at once; its only other way out is the Err
\* of a failed draw, poll or read.
QuitOrErrorEndsLoop ==
    /\ pc = "returned" =>
         \/ app_result = "Ok" /\ last_event = "q" /\ failed = "none"
         \/ app_result = "Err" /\ last_event # "q"
              /\ failed \in {"draw", "poll", "read"}
    /\ last_event = "q" => pc = "returned"
    /\ pc # "returned" => app_result = "none" /\ failed = "none"

\* q ended a loop that had ticked and handled a key
QuitAfterWork ==
    /\ pc = "returned"
    /\ app_result = "Ok"
    /\ last_event = "q"
    /\ tick_count = 1
    /\ events_read = 2

\* C7 (Spec): once the terminal is initialised, ratatui::restore runs exactly
\* once, after run has returned and before main returns, and main returns
\* what run returned: Ok after q, Err after a failed draw, poll or read.
RestoredBeforeReturn ==
    /\ restored <= 1
    /\ restored = 1 => term_init /\ pc = "returned"
    /\ (term_init /\ mpc \in {"return", "done"}) => restored = 1
    /\ (term_init /\ mpc = "done") =>
         /\ main_result = app_result
         /\ app_result \in {"Ok", "Err"}
         /\ main_result = "Ok" <=> last_event = "q"
         /\ main_result = "Err" <=> failed # "none"

\* main has returned the Err of a failed read, with the terminal restored
RestoredAfterError ==
    /\ mpc = "done"
    /\ term_init
    /\ failed = "read"
    /\ main_result = "Err"
    /\ restored = 1

\* what one iteration may have done so far: a draw, then a poll, then an
\* event only if the poll reported one
IterationSoFar(it) ==
    /\ it.renders <= 1
    /\ it.polls <= it.renders
    /\ it.events <= it.polls
    /\ it.events = 1 => it.polled = "event"
    /\ it.ticks <= it.polls

\* what an iteration that ran to its end has done
IterationWhole(it) ==
    /\ it.renders = 1
    /\ it.polls = 1
    /\ it.polled \in {"event", "timeout"}
    /\ it.events <= 1
    /\ it.ticks <= 1

\* C8 (Spec): every iteration that runs to its end has drawn once, polled
\* once, dispatched at most one event and called on_tick at most once, in
\* that order; and on_tick is called only when a tick interval or more has
\* passed since its last call (since the start of the loop for the first).
IterationShape ==
    [][/\ IterationSoFar(iter')
       /\ prev_iter'.done => IterationSoFar(prev_iter') /\ IterationWhole(prev_iter')
       /\ tick_count' # tick_count => now - last_on_tick >= tick_rate]_vars

\* an iteration has drawn, polled, dispatched an event and ticked, and it was
\* the second on_tick
FullIteration ==
    /\ prev_iter = [renders |-> 1, polls |-> 1, polled |-> "event",
                    events |-> 1, ticks |-> 1, done |-> TRUE]
    /\ tick_count = 2

\* the two-sided clamp of the specification
Clamp(v, lo, hi) == IF v < lo THEN lo ELSE IF v > hi THEN hi ELSE v
ClampX(x, pg) == Clamp(x, F(Left(pg)), F(Right(pg)) - F(5))
ClampY(y, pg) == Clamp(y, F(Top(pg)), F(Bottom(pg)) - F(5))

\* the mapping of the specification
ClampedMove(code, pos, pg) ==
    CASE code \in {"Down", "j"} -> <<pos[1], ClampY(pos[2] + F(1), pg)>>
      [] code \in {"Up", "k"} -> <<pos[1], ClampY(pos[2] - F(1), pg)>>
      [] code \in {"Right", "l"} -> <<ClampX(pos[1] + F(1), pg), pos[2]>>
      [] code \in {"Left", "h"} -> <<ClampX(pos[1] - F(1), pg), pos[2]>>

\* C9 (SpecKeys): in every reachable state, what the match makes of each
\* movement key is the coordinate moved by one and clamped on both sides, the
\* other coordinate unchanged.
InputIsTwoSidedClamp ==
    \A code \in MoveKeys :
        MatchArm(Arm(code), pet_position, playground)
            = ClampedMove(code, pet_position, playground)

\* the 56th press of down from y = 50 has been held at y = 105
HeldAtBottom ==
    /\ run_dir = "down"
    /\ run_len = 56
    /\ run_start = NewPosition
    /\ pet_position = <<F(100), F(105)>>

\* C10 (SpecKeys): with no tick between them, k presses of one direction
\* take the coordinate to start + k or start - k, clamped at the boundary of
\* that direction (205, 10, 105, 10), and leave the other alone; so a press
\* at the boundary changes nothing.
RunSaturates ==
    /\ run_dir = "right" =>
         pet_position = <<Min(run_start[1] + F(run_len), F(205)), run_start[2]>>
    /\ run_dir = "left" =>
         pet_position = <<Max(run_start[1] - F(run_len), F(10)), run_start[2]>>
    /\ run_dir = "down" =>
         pet_position = <<run_start[1], Min(run_start[2] + F(run_len), F(105))>>
    /\ run_dir = "up" =>
         pet_position = <<run_start[1], Max(run_start[2] - F(run_len), F(10))>>

\* 1000 presses of left from x = 100 have ended at x = 10
ThousandLefts ==
    /\ run_dir = "left"
    /\ run_len = 1000
    /\ run_start = <<F(100), F(50)>>
    /\ pet_position = <<F(10), F(50)>>

\* C11 (SpecTicks): while no key has been dispatched, the position after n
\* calls of on_tick is (min(100 + n, 205), max(50 - n/2, 10)): clamping at
\* every call gives what clamping once at the end gives. So it is (160, 20)
\* after 60 calls and stays in the corner (205, 10) from the 105th call on.
DriftClosedForm ==
    keys_used = 0 =>
        /\ pet_position = <<Min(F(100) + tick_count * dx, F(205)),
                            Max(F(50) + tick_count * dy, F(10))>>
        /\ tick_count = 60 => pet_position = <<F(160), F(20)>>
        /\ tick_count >= 105 => pet_position = <<F(205), F(10)>>

\* the 105th call alone has brought the pet into the corner: x was 204.5
\* short of the clamp one call before
DriftReachedCorner ==
    /\ keys_used = 0
    /\ tick_count = 105
    /\ pet_position = <<F(205), F(10)>>

\* C12 as stated: the circle drawn at pet_position overflows none of the
\* edges of the canvas rectangle (x - 5 >= 10, x + 5 <= 210, y - 5 >= 10,
\* y + 5 <= 110).
CircleInsideCanvas ==
    LET c == pet_canvas.circle
    IN  /\ c.x - c.radius >= pet_canvas.x_bounds[1]
        /\ c.x + c.radius <= pet_canvas.x_bounds[2]
        /\ c.y - c.radius >= pet_canvas.y_bounds[1]
        /\ c.y + c.radius <= pet_canvas.y_bounds[2]

\* C12 (SpecTicks): the margin of the radius is kept from the far edges only
\* (x + 5 <= 210, y + 5 <= 110); towards the near edges it is the centre
\* that stays inside (x >= 10, y >= 10), so the circle overflows them by at
\* most its radius.
CircleInsideFarEdges ==
    LET c == pet_canvas.circle
    IN  /\ c.x + c.radius <= pet_canvas.x_bounds[2]
        /\ c.y + c.radius <= pet_canvas.y_bounds[2]
        /\ c.x >= pet_canvas.x_bounds[1]
        /\ c.y >= pet_canvas.y_bounds[1]

\* the drift has put the circle against the right edge and half over the top
CircleOverTop ==
    LET c == pet_canvas.circle
    IN  /\ tick_count = 200
        /\ c.x + c.radius = pet_canvas.x_bounds[2]
        /\ c.y = pet_canvas.y_bounds[1]

\* a step that dispatches the event last_event'
Dispatches ==
    /\ last_event' # "tick"
    /\ \/ last_event' # last_event
       \/ events_read' # events_read
       \/ key_hist' # key_hist

\* the coordinates of pet_position a step changes
Changed == {i \in 1..2 : pet_position'[i] # pet_position[i]}

\* the coordinate a movement key is about, and its value at the boundary
\* the key moves towards
Axis(code) == IF Arm(code) \in {"left", "right"} THEN 1 ELSE 2
Limit(code) ==
    CASE Arm(code) = "left" -> F(10)
      [] Arm(code) = "right" -> F(205)
      [] Arm(code) = "up" -> F(10)
      [] Arm(code) = "down" -> F(105)

\* the coordinate after a press: one further in the direction of the key, or
\* the boundary where that is nearer
Toward(code, v) ==
    IF Arm(code) \in {"left", "up"}
      THEN Max(v - F(1), Limit(code))
      ELSE Min(v + F(1), Limit(code))

\* C13 as stated: an input event changes none of hunger, happiness,
\* tick_count, marker and playground; a movement key changes exactly one
\* coordinate; any other event changes nothing; no step changes playground.
InputFrameExactlyOne ==
    [][/\ playground' = playground
       /\ Dispatches =>
            /\ UNCHANGED <<hunger, happiness, tick_count, marker>>
            /\ last_event' \in MoveKeys => Cardinality(Changed) = 1
            /\ last_event' \notin MoveKeys => pet_position' = pet_position]_vars

\* C13 (SpecKeys): an input event changes none of hunger, happiness,
\* tick_count, marker and playground; a movement key changes the coordinate
\* of its direction by one, or by less where the boundary it moves towards
\* is nearer, so by nothing at that boundary, and never the other
\* coordinate; any other event changes nothing; no step, on_tick included,
\* changes playground.
InputFrame ==
    [][/\ playground' = playground
       /\ Dispatches =>
            /\ UNCHANGED <<hunger, happiness, tick_count, marker>>
            /\ last_event' \in MoveKeys =>
                 LET a == Axis(last_event')
                 IN  /\ Changed \subseteq {a}
                     /\ Changed = {} <=> pet_position[a] = Limit(last_event')
                     /\ pet_position'[a] = Toward(last_event', pet_position[a])
            /\ last_event' \notin MoveKeys => pet_position' = pet_position]_vars

\* the 91st press of left from x = 100 found the pet at the boundary and
\* changed nothing
PressedAtLeftBoundary ==
    /\ last_event = "Left"
    /\ run_len = 91
    /\ run_start = NewPosition
    /\ pet_position = <<F(10), F(50)>>

\* the place of a marker in Cycle, counted from 0
CycleIndex(m) == CHOOSE i \in 0..4 : CycleAt(i) = m

\* C14 (SpecTicks): the marker changes only in a call of on_tick whose
\* incremented tick_count is a multiple of 180, and then to its successor
\* in the cycle Dot, Braille, Block, HalfBlock, Bar, Dot; no other call and
\* no input event changes it; so it is a function of tick_count modulo 900
\* and after every 900 calls it is again what it was.
MarkerStep ==
    [][/\ IF tick_count' = tick_count + 1 /\ tick_count' % 180 = 0
             THEN marker' = CycleAt((CycleIndex(marker) + 1) % 5)
             ELSE marker' = marker
       /\ marker' = CycleAt(((tick_count' % 900) \div 180 + 1) % 5)]_vars

\* the 900th call has brought the marker back to Braille, with keys
\* dispatched on the way
MarkerBackAfter900 ==
    /\ tick_count = 900
    /\ keys_used = MaxKeys
    /\ marker = "Braille"

\* C15 (SpecTicks): hunger never decreases and happiness never increases;
\* a step changes each by at most 1; both stay within 0..100; and once
\* hunger is 100 or happiness is 0 it keeps that value.
MoodMonotone ==
    [][/\ hunger' \in {hunger, hunger + 1}
       /\ happiness' \in {happiness, happiness - 1}
       /\ hunger' \in 0..100
       /\ happiness' \in 0..100
       /\ hunger = 100 => hunger' = 100
       /\ happiness = 0 => happiness' = 0]_vars

\* 120 calls after happiness reached 0 both values are still at their ends
MoodKeptAtEnds ==
    /\ tick_count = 12120
    /\ hunger = 100
    /\ happiness = 0

\* C16 (Spec): tick_count is 0 at the start; the step that runs on_tick
\* increases it by exactly 1; no other step (render, poll, dispatch of an
\* event, the steps of main, the passing of time) changes it.
TickCountStep ==
    /\ tick_count = 0
    /\ [][IF pc = "on_tick" /\ pc' # "on_tick"
            THEN tick_count' = tick_count + 1
            ELSE tick_count' = tick_count]_vars

\* two calls of on_tick, with renders and dispatched events around them
CountedTwoTicks ==
    /\ tick_count = 2
    /\ events_read = MaxEvents
    /\ last_event = "tick"
    /\ prev_iter.renders = 1

\* the number a sequence of decimal digits stands for
Value(ds) ==
    CASE Len(ds) = 1 -> ds[1]
      [] Len(ds) = 2 -> 10 * ds[1] + ds[2]
      [] Len(ds) = 3 -> 100 * ds[1] + 10 * ds[2] + ds[3]

\* what a frame shows of the App
Shown(f) ==
    [hunger |-> Value(f[1][1][2]),
     happiness |-> Value(f[1][2][2]),
     pet_position |-> <<f[2].circle.x, f[2].circle.y>>,
     marker |-> f[2].marker]

\* C17 (Spec): the draw step changes no field of the App, and the frame it
\* leaves is the one of the App's state at that moment: it shows the hunger,
\* happiness, pet position and marker of that state, whatever was on the
\* screen before.
DrawIsPure ==
    [][pc = "draw" /\ pc' # "draw" /\ pc' # "returned" =>
         /\ app_vars' = app_vars
         /\ frame' = draw
         /\ Shown(frame') = [hunger |-> hunger, happiness |-> happiness,
                             pet_position |-> pet_position,
                             marker |-> marker]]_vars

\* a frame drawn after a key and a call of on_tick have moved the pet
DrewMovedPet ==
    /\ pc = "poll_call"
    /\ tick_count = 1
    /\ events_read = 1
    /\ pet_position # TickPosition(NewPosition, NewPlayground)
    /\ frame = draw

\* C18 (Spec): the timeout given to poll is the tick interval less the time
\* since the last tick, and 0 where that time is the interval or more, so it
\* is within 0..16; and when poll has ended by timeout with no event, the
\* interval has passed at the tick check, so that on_tick runs in that same
\* iteration.
PollTimeoutToTick ==
    /\ pc = "poll" =>
         /\ timeout \in 0..tick_rate
         /\ timeout = Max(tick_rate - (poll_start - last_tick), 0)
         /\ poll_start - last_tick >= tick_rate => timeout = 0
    /\ pc = "tick_check" /\ iter.polled = "timeout" =>
         now - last_tick >= tick_rate
    /\ pc = "on_tick" => now - last_tick >= tick_rate
    /\ prev_iter.done /\ prev_iter.polled = "timeout" => prev_iter.ticks = 1

\* a poll entered with the interval already passed, after an iteration whose
\* poll timed out and which ran on_tick
PolledWithZeroTimeout ==
    /\ pc = "poll"
    /\ timeout = 0
    /\ poll_start - last_tick > tick_rate
    /\ prev_iter.polled = "timeout"
    /\ prev_iter.ticks = 1

\* C19 (Spec): once q has been dispatched the loop has ended with Ok, in the
\* iteration that read it: that iteration has rendered once, polled once,
\* dispatched the one event and not run on_tick, whether or not a tick was
\* due; and the App is in the state the frame of that iteration shows.
QuitIsImmediate ==
    last_event = "q" =>
        /\ pc = "returned"
        /\ app_result = "Ok"
        /\ iter = [renders |-> 1, polls |-> 1, polled |-> "event",
                   events |-> 1, ticks |-> 0, done |-> FALSE]
        /\ frame = draw

\* q was read when a tick was due, after an earlier tick
QuitWhileTickDue ==
    /\ last_event = "q"
    /\ now - last_tick >= tick_rate
    /\ tick_count = 1
    /\ pc = "returned"

\* C20 (SpecLive): when the program goes on, time goes on, q is not pressed
\* and nothing fails, on_tick is called again and again, whether or not an
\* event is there at every poll: tick_count reaches every value up to
\* MaxLiveTicks; so hunger comes to 100 and happiness to 0, and they stay.
TickNotStarved ==
    <>[](tick_count = MaxLiveTicks /\ hunger = 100 /\ happiness = 0)

\* the last call of on_tick came at the end of an iteration that had
\* dispatched an event, and found hunger at 100 and brought happiness to 0
TickedAfterEvent ==
    /\ tick_count = MaxLiveTicks
    /\ prev_iter.events = 1
    /\ prev_iter.ticks = 1
    /\ pc = "draw"
    /\ hunger = 100
    /\ happiness = 0

====
